---- MODULE Spec2Model ----
(***************************************************************************)
(* Model of yumimobi/retrying (retrying.go): the chained builder, Try,     *)
(* the recover wrapper, wait, tryWithoutTimeout and the producer /         *)
(* coordinator pair of tryWithTimeout.                                     *)
(***************************************************************************)
EXTENDS Integers, Sequences, FiniteSets, TLC

\* ---------------------------------------------------------------- bounds
MaxAttempts == 3        \* largest n passed to MaxAttemptTimes
MaxBuilderCalls == 4    \* chained configuration calls before Try

\* ------------------------------------------------------------- constants
defaultStackSize == 4096
defaultMaxAttemptTimes == 1

VARIABLES
    stackSize, allGoroutines,       \* Retryable.stackSize / allGoroutines
    maxAttemptTimes, maxDelay,      \* Retryable.maxAttemptTimes / maxDelay
    waitFixed, waitRandomMin, waitRandomMax,
    f,                              \* Retryable.f: the bound operation
    errors,                         \* Retryable.errors
    ncalls,                         \* builder calls made so far
    panicked,                       \* a builder call panicked: the chain is dead
    pc,                             \* position of the goroutine running Try
    ret,                            \* value returned by Try
    acc,                            \* local `errors` of tryWith(out)Timeout
    count,                          \* loop counter (shared in tryWithTimeout)
    ppc,                            \* position of the producer goroutine
    pending,                        \* value the producer offers on errChan
    timerC,                         \* timer.C holds a tick
    invoked,                        \* number of calls of r.f
    raw,                            \* outcome of each call, in call order
    waits, lastDelay,               \* calls of sleep and the last duration
    branch,                         \* select case taken last by the coordinator
    got,                            \* what the coordinator received, in order
    escaped                         \* a panic left the wrapper

cfg == <<stackSize, allGoroutines, maxAttemptTimes, maxDelay, waitFixed,
         waitRandomMin, waitRandomMax, f, errors, ncalls, panicked>>
run == <<pc, ret, acc, count, ppc, pending, timerC, invoked, raw, waits,
         lastDelay, branch, got, escaped>>
vars == <<cfg, run>>

\* ----------------------------------------------------------- error values
Err(kind, call) == [kind |-> kind, call |-> call]
Nil == Err("nil", 0)
ErrTimeout == Err("timeout error", 0)
ErrNoFunctionSpecified == Err("no function is specified", 0)

\* values of type error returned by Try
RetNone == [tag |-> "none", errs |-> <<>>]
RetNil == [tag |-> "nil", errs |-> <<>>]
RetTimeout == [tag |-> "sentinel", errs |-> <<ErrTimeout>>]
RetMulti(es) == [tag |-> "multi", errs |-> es]

\* a variant that keeps only the newest failure
MultiAppendReplace(es, err) == IF err = Nil THEN es ELSE <<err>>
\* a variant that records the newest failure first
MultiAppendFront(es, err) == IF err = Nil THEN es ELSE <<err>> \o es
\* multierror.Append(errs, err): nil is not recorded
MultiAppend(es, err) == IF err = Nil THEN es ELSE Append(es, err)
\* (*multierror.Error).ErrorOrNil
ErrorOrNil(es) == IF Len(es) = 0 THEN RetNil ELSE RetMulti(es)

\* ------------------------------------------------------------ the builder
\* r.f as set by New: not wrapped, always returns ErrNoFunctionSpecified
DefaultF == [bound |-> FALSE, nIn |-> 0, nOut |-> 0, lastErr |-> FALSE]
\* r.f as set by Function for a func with the given shape
WrappedF(nIn, nOut, lastErr) ==
    [bound |-> TRUE, nIn |-> nIn, nOut |-> nOut, lastErr |-> lastErr]

Init ==
    /\ stackSize = defaultStackSize
    /\ allGoroutines = FALSE
    /\ maxAttemptTimes = defaultMaxAttemptTimes
    /\ maxDelay = 0
    /\ waitFixed = 0
    /\ waitRandomMin = 0
    /\ waitRandomMax = 0
    /\ f = DefaultF
    /\ errors = <<>>
    /\ ncalls = 0
    /\ panicked = FALSE
    /\ pc = "config"
    /\ ret = RetNone
    /\ acc = <<>>
    /\ count = 0
    /\ ppc = "none"
    /\ pending = Nil
    /\ timerC = FALSE
    /\ invoked = 0
    /\ raw = <<>>
    /\ waits = 0
    /\ lastDelay = 0
    /\ branch = "none"
    /\ got = <<>>
    /\ escaped = FALSE

Building == pc = "config" /\ ncalls < MaxBuilderCalls /\ ~panicked

Stack(n, all) ==
    /\ Building
    /\ errors' = IF n <= 0
                 THEN Append(errors, Err("stack size must be positive integer", 0))
                 ELSE errors
    /\ stackSize' = n
    /\ allGoroutines' = all
    /\ ncalls' = ncalls + 1
    /\ UNCHANGED <<maxAttemptTimes, maxDelay, waitFixed, waitRandomMin,
                   waitRandomMax, f, panicked, run>>

MaxAttemptTimes(n) ==
    /\ Building
    /\ errors' = IF n <= 0
                 THEN Append(errors, Err("max attempt times must be positive integer", 0))
                 ELSE errors
    /\ maxAttemptTimes' = n
    /\ ncalls' = ncalls + 1
    /\ UNCHANGED <<stackSize, allGoroutines, maxDelay, waitFixed, waitRandomMin,
                   waitRandomMax, f, panicked, run>>

\* a variant in which a valid argument clears the recorded errors
MaxDelayClearing(d) ==
    /\ Building
    /\ errors' = IF d <= 0
                 THEN Append(errors, Err("max delay must be positive duration", 0))
                 ELSE <<>>
    /\ maxDelay' = d
    /\ ncalls' = ncalls + 1
    /\ UNCHANGED <<stackSize, allGoroutines, maxAttemptTimes, waitFixed,
                   waitRandomMin, waitRandomMax, f, panicked, run>>

MaxDelay(d) ==
    /\ Building
    /\ errors' = IF d <= 0
                 THEN Append(errors, Err("max delay must be positive duration", 0))
                 ELSE errors
    /\ maxDelay' = d
    /\ ncalls' = ncalls + 1
    /\ UNCHANGED <<stackSize, allGoroutines, maxAttemptTimes, waitFixed,
                   waitRandomMin, waitRandomMax, f, panicked, run>>

WaitFixed(d) ==
    /\ Building
    /\ errors' = IF d <= 0
                 THEN Append(errors, Err("wait fixed must be positive duration", 0))
                 ELSE errors
    /\ waitFixed' = d
    /\ ncalls' = ncalls + 1
    /\ UNCHANGED <<stackSize, allGoroutines, maxAttemptTimes, maxDelay,
                   waitRandomMin, waitRandomMax, f, panicked, run>>

WaitRandomErrors(min, max) ==
    (IF min < 0 \/ max < 0
     THEN <<Err("wait random min/max must be positive duration", 0)>> ELSE <<>>)
    \o (IF min >= max
        THEN <<Err("wait random min must be smaller than max", 0)>> ELSE <<>>)

WaitRandom(min, max) ==
    /\ Building
    /\ errors' = errors \o WaitRandomErrors(min, max)
    /\ waitRandomMin' = min
    /\ waitRandomMax' = max
    /\ ncalls' = ncalls + 1
    /\ UNCHANGED <<stackSize, allGoroutines, maxAttemptTimes, maxDelay,
                   waitFixed, f, panicked, run>>

\* Arguments of Function: the nil interface, a non-function value (such as
\* 1), or a func described by its number of inputs, number of outputs and
\* whether the last output implements error.
NilArg == [isNil |-> TRUE, isFunc |-> FALSE, nIn |-> 0, nOut |-> 0, lastErr |-> FALSE]
NonFunc == [isNil |-> FALSE, isFunc |-> FALSE, nIn |-> 0, nOut |-> 0, lastErr |-> FALSE]
Func(nIn, nOut, lastErr) ==
    [isNil |-> FALSE, isFunc |-> TRUE, nIn |-> nIn, nOut |-> nOut, lastErr |-> lastErr]

FunctionErrors(i) ==
    (IF i.nIn # 0 THEN <<Err("expected 0 inputs", 0)>> ELSE <<>>)
    \o (IF i.nOut > 0 /\ ~i.lastErr
        THEN <<Err("expected 0 output or last output implements error interface", 0)>>
        ELSE <<>>)

\* reflect.TypeOf(nil) is the nil Type, and typ.Kind() on it is a nil
\* dereference: the call panics before anything is recorded.
Function(i) ==
    /\ Building
    /\ IF i.isNil
       THEN /\ panicked' = TRUE
            /\ UNCHANGED <<errors, f>>
       ELSE IF ~i.isFunc
       THEN /\ errors' = Append(errors, Err("expected type func", 0))
            /\ UNCHANGED <<f, panicked>>
       ELSE /\ errors' = errors \o FunctionErrors(i)
            /\ f' = WrappedF(i.nIn, i.nOut, i.lastErr)
            /\ panicked' = panicked
    /\ ncalls' = ncalls + 1
    /\ UNCHANGED <<stackSize, allGoroutines, maxAttemptTimes, maxDelay,
                   waitFixed, waitRandomMin, waitRandomMax, run>>

\* ------------------------------------------------------------ the wrapper
\* What one call of the bound function can do: return normally ("ok"),
\* return a non-nil error ("err"), panic ("panic") or never return ("block").
\* The placeholder set by New only returns its error; a func without outputs
\* cannot return an error; reflect's Call panics on a func that wants inputs,
\* and the closure panics on a last output that is not an error.
Outcomes(fn) ==
    IF ~fn.bound THEN {"err"}
    ELSE IF fn.nIn # 0 THEN {"panic"}
    ELSE IF fn.nOut = 0 THEN {"ok", "panic", "block"}
    ELSE IF fn.lastErr THEN {"ok", "err", "panic", "block"}
    ELSE {"panic", "block"}

\* a variant without the deferred recover
wrapNoRecover(outcome, n) ==
    IF outcome = "panic"
    THEN [escaped |-> TRUE, val |-> Nil]
    ELSE IF outcome = "err"
         THEN [escaped |-> FALSE, val |-> Err("err", n)]
         ELSE [escaped |-> FALSE, val |-> Nil]

\* The closure built by wrapRecoverFunc, applied to the n-th call: a panic is
\* recovered into an error; make([]byte, r.stackSize) in the deferred function
\* panics itself when stackSize is negative, and that panic is not recovered.
wrapRecoverFunc(outcome, n) ==
    IF outcome = "panic"
    THEN IF stackSize < 0
         THEN [escaped |-> TRUE, val |-> Nil]
         ELSE [escaped |-> FALSE, val |-> Err("panic", n)]
    ELSE IF outcome = "err"
         THEN [escaped |-> FALSE, val |-> Err("err", n)]
         ELSE [escaped |-> FALSE, val |-> Nil]

\* r.f() for the n-th call
CallF(outcome, n) ==
    IF f.bound THEN wrapRecoverFunc(outcome, n)
    ELSE [escaped |-> FALSE, val |-> ErrNoFunctionSpecified]

\* --------------------------------------------------------------- wait
\* a variant in which a valid random range takes precedence
WaitDurationsRandomFirst ==
    IF waitRandomMax > waitRandomMin
    THEN {waitRandomMin + x : x \in 0..(waitRandomMax - waitRandomMin - 1)}
    ELSE {waitFixed}

\* a variant whose random range includes its upper end
WaitDurationsInclusive ==
    IF waitFixed <= 0 /\ waitRandomMax > waitRandomMin
    THEN {waitRandomMin + x : x \in 0..(waitRandomMax - waitRandomMin)}
    ELSE {waitFixed}

\* the durations wait() can pass to sleep
WaitDurations ==
    IF waitFixed <= 0 /\ waitRandomMax > waitRandomMin
    THEN {waitRandomMin + x : x \in 0..(waitRandomMax - waitRandomMin - 1)}
    ELSE {waitFixed}

\* --------------------------------------------------------------- Try
\* a variant that tolerates a single error
InitFailedOffByOne(es) == Len(es) > 1
\* "stop if errors occur in initialization"
InitFailed(es) == Len(es) > 0
\* "try with or without timeout"
WithTimeout == maxDelay > 0
\* a variant that allows one attempt too many
MoreAttemptsOffByOne(c) == c >= 0
\* the loop test `count > 0` of both attempt loops
MoreAttempts(c) == c > 0
\* a variant with the test inverted
SucceededInverted(err) == err # Nil
\* the test `err == nil` after an attempt
Succeeded(err) == err = Nil

Try ==
    /\ pc = "config"
    /\ ~panicked
    /\ IF InitFailed(errors)
       THEN /\ pc' = "done"
            /\ ret' = RetMulti(errors)
            /\ UNCHANGED <<acc, count, ppc, timerC>>
       ELSE IF WithTimeout
       THEN /\ pc' = "select"
            /\ acc' = <<>>
            /\ timerC' = FALSE
            /\ count' = maxAttemptTimes
            /\ ppc' = "loop"
            /\ ret' = ret
       ELSE /\ acc' = <<>>
            /\ count' = maxAttemptTimes
            /\ IF MoreAttempts(maxAttemptTimes)
               THEN pc' = "loop" /\ ret' = ret
               ELSE pc' = "done" /\ ret' = ErrorOrNil(<<>>)
            /\ UNCHANGED <<ppc, timerC>>
    /\ UNCHANGED <<cfg, pending, invoked, raw, waits, lastDelay, branch, got,
                   escaped>>

\* ------------------------------------------------- tryWithoutTimeout
\* one iteration of the for loop: call, append, test, wait, count--
Attempt ==
    /\ pc = "loop"
    /\ MoreAttempts(count)
    /\ \E o \in Outcomes(f) :
         LET n == invoked + 1
             r == CallF(o, n)
         IN /\ invoked' = n
            /\ raw' = Append(raw, o)
            /\ IF o = "block"
               THEN /\ pc' = "blocked"
                    /\ UNCHANGED <<ret, acc, count, waits, lastDelay, escaped>>
               ELSE IF r.escaped
               THEN /\ pc' = "crashed"
                    /\ escaped' = TRUE
                    /\ UNCHANGED <<ret, acc, count, waits, lastDelay>>
               ELSE /\ acc' = MultiAppend(acc, r.val)
                    /\ escaped' = escaped
                    /\ IF Succeeded(r.val)
                       THEN /\ pc' = "done"
                            /\ ret' = RetNil
                            /\ UNCHANGED <<count, waits, lastDelay>>
                       ELSE /\ \E d \in WaitDurations : lastDelay' = d
                            /\ waits' = waits + 1
                            /\ count' = count - 1
                            /\ IF MoreAttempts(count - 1)
                               THEN pc' = "loop" /\ ret' = ret
                               ELSE pc' = "done" /\ ret' = ErrorOrNil(acc')
    /\ UNCHANGED <<cfg, ppc, pending, timerC, branch, got>>

\* ---------------------------------------------------- tryWithTimeout
\* producer: the loop test `count > 0` and the call r.f(); the result is then
\* offered on the unbuffered errChan
ProdCall ==
    /\ ppc = "loop"
    /\ IF MoreAttempts(count)
       THEN \E o \in Outcomes(f) :
              LET n == invoked + 1
                  r == CallF(o, n)
              IN /\ invoked' = n
                 /\ raw' = Append(raw, o)
                 /\ IF o = "block"
                    THEN /\ ppc' = "blocked"
                         /\ UNCHANGED <<pc, pending, escaped>>
                    ELSE IF r.escaped
                    THEN /\ ppc' = "crashed"
                         /\ pc' = "crashed"
                         /\ escaped' = TRUE
                         /\ pending' = pending
                    ELSE /\ ppc' = "send"
                         /\ pending' = r.val
                         /\ UNCHANGED <<pc, escaped>>
       ELSE /\ ppc' = "exit"
            /\ UNCHANGED <<pc, pending, invoked, raw, escaped>>
    /\ UNCHANGED <<cfg, ret, acc, count, timerC, waits, lastDelay, branch, got>>

\* producer: r.wait() after its send was taken
ProdWait ==
    /\ ppc = "wait"
    /\ \E d \in WaitDurations : lastDelay' = d
    /\ waits' = waits + 1
    /\ ppc' = "dec"
    /\ UNCHANGED <<cfg, pc, ret, acc, count, pending, timerC, invoked, raw,
                   branch, got, escaped>>

\* a variant that counts down on the policy field itself
ProdDecOnPolicy ==
    /\ ppc = "dec"
    /\ count' = count - 1
    /\ maxAttemptTimes' = maxAttemptTimes - 1
    /\ ppc' = "loop"
    /\ UNCHANGED <<stackSize, allGoroutines, maxDelay, waitFixed, waitRandomMin,
                   waitRandomMax, f, errors, ncalls, panicked, pc, ret, acc,
                   pending, timerC, invoked, raw, waits, lastDelay, branch, got,
                   escaped>>

\* producer: count--
ProdDec ==
    /\ ppc = "dec"
    /\ count' = count - 1
    /\ ppc' = "loop"
    /\ UNCHANGED <<cfg, pc, ret, acc, pending, timerC, invoked, raw, waits,
                   lastDelay, branch, got, escaped>>

\* the timer started by time.NewTimer(r.maxDelay) delivers its tick
TimerFire ==
    /\ pc \in {"select", "check"}
    /\ ~timerC
    /\ timerC' = TRUE
    /\ UNCHANGED <<cfg, pc, ret, acc, count, ppc, pending, invoked, raw, waits,
                   lastDelay, branch, got, escaped>>

\* coordinator: case err := <-errChan, the append and the nil test
CoordRecv ==
    /\ pc = "select"
    /\ ppc = "send"
    /\ acc' = MultiAppend(acc, pending)
    /\ got' = Append(got, [call |-> invoked, val |-> pending])
    /\ ppc' = "wait"
    /\ branch' = "result"
    /\ IF Succeeded(pending)
       THEN pc' = "done" /\ ret' = RetNil
       ELSE pc' = "check" /\ ret' = ret
    /\ UNCHANGED <<cfg, count, pending, timerC, invoked, raw, waits, lastDelay,
                   escaped>>

\* a variant that reports exhaustion one attempt early
CoordCheckOffByOne ==
    /\ pc = "check"
    /\ IF count <= 1
       THEN pc' = "done" /\ ret' = ErrorOrNil(acc)
       ELSE pc' = "select" /\ ret' = ret
    /\ UNCHANGED <<cfg, acc, count, ppc, pending, timerC, invoked, raw, waits,
                   lastDelay, branch, got, escaped>>

\* coordinator: the read of the shared count, `if count <= 0`
CoordCheck ==
    /\ pc = "check"
    /\ IF count <= 0
       THEN pc' = "done" /\ ret' = ErrorOrNil(acc)
       ELSE pc' = "select" /\ ret' = ret
    /\ UNCHANGED <<cfg, acc, count, ppc, pending, timerC, invoked, raw, waits,
                   lastDelay, branch, got, escaped>>

\* a variant that reports the failures received so far with the timeout
TimeoutResultWithHistory(es) == RetMulti(Append(es, ErrTimeout))
\* what the deadline case returns
TimeoutResult(es) == RetTimeout

\* a variant that drains the tick and keeps selecting
CoordTimeoutIgnored ==
    /\ pc = "select"
    /\ timerC
    /\ timerC' = FALSE
    /\ branch' = "deadline"
    /\ UNCHANGED <<cfg, pc, ret, acc, count, ppc, pending, invoked, raw, waits,
                   lastDelay, got, escaped>>

\* coordinator: case <-timer.C
CoordTimeout ==
    /\ pc = "select"
    /\ timerC
    /\ timerC' = FALSE
    /\ branch' = "deadline"
    /\ pc' = "done"
    /\ ret' = TimeoutResult(acc)
    /\ UNCHANGED <<cfg, acc, count, ppc, pending, invoked, raw, waits,
                   lastDelay, got, escaped>>

\* The caller keeps the *Retryable (every builder method returns r) and
\* starts another chain of calls on it after Try returned and the goroutine
\* of that run, if any, has ended: the locals of the former run are gone.
Reuse ==
    /\ pc = "done"
    /\ ppc \in {"none", "exit"}
    /\ pc' = "config"
    /\ ret' = RetNone
    /\ acc' = <<>>
    /\ count' = 0
    /\ ppc' = "none"
    /\ pending' = Nil
    /\ timerC' = FALSE
    /\ invoked' = 0
    /\ raw' = <<>>
    /\ waits' = 0
    /\ lastDelay' = 0
    /\ branch' = "none"
    /\ got' = <<>>
    /\ escaped' = FALSE
    /\ UNCHANGED cfg

\* ------------------------------------------------------- specification
StackArgs == {-1, 64}
AttemptArgs == 0..MaxAttempts
DelayArgs == {0, 5}
FixedArgs == {0, 4}
RandomArgs == {<<-1, -1>>, <<-1, 1>>, <<3, 1>>, <<1, 3>>}
FunctionArgs == {NilArg, NonFunc, Func(0, 0, FALSE), Func(0, 1, TRUE), Func(1, 0, FALSE),
                 Func(1, 1, FALSE)}

Next ==
    \/ \E n \in StackArgs, all \in BOOLEAN : Stack(n, all)
    \/ \E n \in AttemptArgs : MaxAttemptTimes(n)
    \/ \E d \in DelayArgs : MaxDelay(d)
    \/ \E d \in FixedArgs : WaitFixed(d)
    \/ \E a \in RandomArgs : WaitRandom(a[1], a[2])
    \/ \E i \in FunctionArgs : Function(i)
    \/ Try
    \/ Attempt
    \/ ProdCall
    \/ ProdWait
    \/ ProdDec
    \/ TimerFire
    \/ CoordRecv
    \/ CoordCheck
    \/ CoordTimeout
    \/ Reuse

Spec == Init /\ [][Next]_vars

\* the Go scheduler runs a runnable coordinator and the runtime delivers the
\* timer's tick
LiveSpec ==
    /\ Init
    /\ [][Next]_vars
    /\ WF_vars(TimerFire)
    /\ WF_vars(CoordCheck)
    /\ WF_vars(CoordTimeout)

\* ------------------------------------------------------------- properties
HasOk == \E i \in 1..Len(raw) : raw[i] = "ok"
FirstOk == CHOOSE i \in 1..Len(raw) :
               raw[i] = "ok" /\ \A j \in 1..(i - 1) : raw[j] # "ok"
Valid == Len(errors) = 0
Returned == pc = "done"

\* C1: whenever the builder recorded at least one validation error, Try
\* returns exactly the recorded errors, with or without a deadline, and
\* neither r.f nor sleep is ever called.
C1_InvalidConfigNeverRuns ==
    (pc # "config" /\ ~Valid) =>
        /\ Returned
        /\ ret = RetMulti(errors)
        /\ invoked = 0
        /\ waits = 0
        /\ ppc = "none"

C1_Witness ==
    Returned /\ Len(errors) = 1 /\ maxDelay > 0 /\ f.bound /\ maxAttemptTimes > 1

\* C2: with no operation bound and an otherwise valid configuration, Try
\* returns exactly one NoFunctionSpecified error after zero attempts and
\* zero waits, in both modes and for every maxAttempts.
C2_NoFunctionExactlyOnce ==
    (Returned /\ Valid /\ ~f.bound) =>
        /\ ret = RetMulti(<<ErrNoFunctionSpecified>>)
        /\ invoked = 0
        /\ waits = 0

\* C3: without a deadline, a run whose first success is the k-th call returns
\* nil after exactly k calls (k <= maxAttempts); a run gives up without
\* success only after maxAttempts calls.
C3_SuccessOnKth ==
    (Returned /\ Valid /\ ~WithTimeout) =>
        IF HasOk
        THEN /\ ret = RetNil
             /\ invoked = FirstOk
             /\ invoked <= maxAttemptTimes
        ELSE /\ ret.tag = "multi"
             /\ invoked = maxAttemptTimes

C3_Witness ==
    /\ Returned /\ ~WithTimeout /\ ret = RetNil
    /\ raw = <<"panic", "err", "ok">>
    /\ invoked = 3

\* C4: without a deadline, an operation that fails on every call is called
\* exactly maxAttempts times and Try returns the composite of the maxAttempts
\* failures, the failure of call i at position i.
C4_ExhaustedInOrder ==
    (Returned /\ Valid /\ ~WithTimeout /\ f.bound /\ ~HasOk) =>
        /\ invoked = maxAttemptTimes
        /\ ret.tag = "multi"
        /\ Len(ret.errs) = maxAttemptTimes
        /\ \A i \in 1..maxAttemptTimes : ret.errs[i] = Err(raw[i], i)

C4_Witness ==
    /\ Returned /\ ~WithTimeout /\ f.bound /\ ~HasOk
    /\ maxAttemptTimes = 3 /\ ret.tag = "multi"
    /\ raw = <<"err", "panic", "err">>

\* C5: with a deadline, once the coordinator has received maxAttempts
\* failures it has returned the composite of them; it is never back in the
\* select and never returns the timeout.
C5_ExhaustedAtLastResult ==
    (WithTimeout /\ Valid /\ f.bound /\ pc \in {"select", "done"}
       /\ Len(acc) = maxAttemptTimes) =>
        (Returned /\ ret = RetMulti(acc))

\* C6: with a deadline and maxAttempts > 1, when Try has returned nil the
\* operation was called exactly k times, k the call that succeeded, also
\* after the return.
C6_NoCallAfterSuccess ==
    (WithTimeout /\ Valid /\ f.bound /\ maxAttemptTimes > 1 /\ Returned
       /\ ret = RetNil) =>
        (HasOk /\ invoked = FirstOk)

\* C7: whenever the coordinator took the deadline case, Try returned exactly
\* ErrTimeout: not a composite, and none of the failures received so far.
C7_TimeoutIsSentinel ==
    (branch = "deadline") =>
        /\ Returned
        /\ ret = RetTimeout
        /\ ret.tag # "multi"
        /\ \A i \in 1..Len(acc) : \A j \in 1..Len(ret.errs) : ret.errs[j] # acc[i]

C7_Witness ==
    branch = "deadline" /\ Returned /\ Len(acc) >= 2 /\ Len(acc) < maxAttemptTimes

\* C8: with a deadline, under fairness of the timer and of the coordinator,
\* every run returns nil, a composite or ErrTimeout, also when the operation
\* never returns.
C8_AlwaysReturns ==
    [](pc \in {"select", "check"} =>
         <>(Returned /\ ret.tag \in {"nil", "multi", "sentinel"}))

C8_Witness ==
    Returned /\ ret = RetTimeout /\ ppc = "blocked" /\ Len(acc) = 1

C10_FixedWins ==
    (waits > 0 /\ waitFixed > 0) => lastDelay = waitFixed

C10_Witness ==
    /\ waits >= 2 /\ waitFixed > 0
    /\ waitRandomMin >= 0 /\ waitRandomMax > waitRandomMin
    /\ lastDelay = waitFixed

\* C11: every configuration call adds exactly one validation error per
\* violated constraint to the recorded list and none for valid arguments:
\* one for n <= 0 (Stack, MaxAttemptTimes), one for d <= 0 (MaxDelay,
\* WaitFixed), for WaitRandom one if min < 0 or max < 0 and one more if
\* min >= max, for Function one for anything that is not a func, and for a
\* func one for inputs and one for a last output that is not an error.
Violations(b) == IF b THEN 1 ELSE 0
Adds(k) == Len(errors') = Len(errors) + k /\ SubSeq(errors', 1, Len(errors)) = errors

C11_OneErrorPerViolation ==
    [][/\ \A n \in StackArgs, all \in BOOLEAN :
             Stack(n, all) => Adds(Violations(n <= 0))
       /\ \A n \in AttemptArgs : MaxAttemptTimes(n) => Adds(Violations(n <= 0))
       /\ \A d \in DelayArgs : MaxDelay(d) => Adds(Violations(d <= 0))
       /\ \A d \in FixedArgs : WaitFixed(d) => Adds(Violations(d <= 0))
       /\ \A a \in RandomArgs :
             WaitRandom(a[1], a[2]) =>
                 Adds(Violations(a[1] < 0 \/ a[2] < 0) + Violations(a[1] >= a[2]))
       /\ \A i \in FunctionArgs :
             Function(i) =>
                 Adds(IF ~i.isFunc THEN 1
                      ELSE Violations(i.nIn # 0)
                           + Violations(i.nOut > 0 /\ ~i.lastErr))
      ]_vars

\* C12: with a deadline, the i-th value the coordinator receives is the
\* result of the i-th call of the operation, one value per call, and the
\* failures it has accumulated are the failures among the values received,
\* in the order of the calls.
Result(i) == IF raw[i] = "ok" THEN Nil ELSE Err(raw[i], i)
Failed(g) == g.val # Nil

C12_ReceivedInAttemptOrder ==
    (WithTimeout /\ Valid /\ pc # "config") =>
        /\ Len(got) <= invoked
        /\ \A i \in 1..Len(got) :
              /\ got[i].call = i
              /\ f.bound => got[i].val = Result(i)
        /\ LET fails == SelectSeq(got, Failed)
           IN /\ Len(acc) = Len(fails)
              /\ \A i \in 1..Len(acc) : acc[i] = fails[i].val /\ fails[i].call = i

C12_Witness ==
    /\ WithTimeout /\ f.bound /\ Len(got) = 3
    /\ got[1].val = Err("panic", 1) /\ got[2].val = Err("err", 2) /\ got[3].val = Nil
    /\ Len(acc) = 2

\* C13: with a deadline, the producer is never left blocked on a send that
\* nobody will receive: once Try has returned the producer is not waiting
\* on errChan, and it has offered at most maxAttempts results.
C13_ProducerNeverStuck ==
    (WithTimeout /\ Valid /\ f.bound /\ Returned) =>
        /\ ppc # "send"
        /\ invoked <= maxAttemptTimes

\* C14: in a run with a valid configuration the operation is never called
\* more than maxAttempts times, in both modes and also after Try returned,
\* and it was called at least once when Try returns nil or a composite.
C14_InvocationBudget ==
    (pc # "config" /\ Valid) =>
        /\ invoked <= maxAttemptTimes
        /\ (Returned /\ ret.tag \in {"nil", "multi"}) => invoked >= 1

C14_Witness ==
    /\ Returned /\ WithTimeout /\ ret = RetNil /\ f.bound
    /\ raw = <<"err", "ok", "err">>
    /\ invoked = maxAttemptTimes

\* C15: no step of a run changes the policy: outside the builder calls,
\* maxAttempts, maxDelay, the waits, the stack options, the bound operation
\* and the recorded validation errors keep their values, in both modes and
\* whatever the outcome, so the next Try on the object finds them as set.
Policy == <<stackSize, allGoroutines, maxAttemptTimes, maxDelay, waitFixed,
            waitRandomMin, waitRandomMax, f, errors>>

C15_PolicyUnchangedByRun ==
    [][(ncalls' = ncalls) => (Policy' = Policy)]_vars

C15_Witness ==
    /\ Returned /\ WithTimeout /\ f.bound /\ ret.tag = "multi"
    /\ count = 0 /\ maxAttemptTimes = 3 /\ invoked = 3
    /\ ppc = "exit"

\* C16: with a deadline, the producer writes no variable that the
\* coordinator's decisions read, the channel aside: while the coordinator
\* is between receiving a result and deciding on it, no step of the producer
\* changes the count the decision tests.
ProducerStep == ProdCall \/ ProdWait \/ ProdDec

C16_NoSharedState ==
    [][(WithTimeout /\ Valid /\ f.bound /\ pc = "check" /\ ProducerStep)
          => (count' = count)]_vars

\* C17: with no fixed wait and a random range min < max (both >= 0) every
\* duration passed to sleep is at least min and less than max; with neither
\* a fixed wait nor a random range the duration is zero.
C17_RandomRange ==
    (waits > 0 /\ waitFixed = 0) =>
        /\ (0 <= waitRandomMin /\ waitRandomMin < waitRandomMax) =>
               (waitRandomMin <= lastDelay /\ lastDelay < waitRandomMax)
        /\ (waitRandomMin = 0 /\ waitRandomMax = 0) => lastDelay = 0

C17_Witness ==
    /\ waits >= 2 /\ waitFixed = 0
    /\ waitRandomMin = 1 /\ waitRandomMax = 3
    /\ lastDelay = 2

\* C18: with a deadline, whenever Try returns a composite of attempt
\* failures the coordinator has received exactly maxAttempts results, every
\* one a failure, and the composite holds exactly these, in call order.
C18_ExhaustedOnlyAfterAll ==
    (WithTimeout /\ Valid /\ Returned /\ ret.tag = "multi") =>
        /\ Len(got) = maxAttemptTimes
        /\ \A i \in 1..Len(got) : got[i].val # Nil
        /\ Len(ret.errs) = maxAttemptTimes
        /\ \A i \in 1..maxAttemptTimes : ret.errs[i] = got[i].val

C18_Witness ==
    /\ WithTimeout /\ f.bound /\ Returned /\ ret.tag = "multi"
    /\ maxAttemptTimes = 3
    /\ raw = <<"panic", "err", "panic">>

\* C19: the recorded validation errors only grow: every step keeps the
\* errors recorded so far as a prefix of the list, so a later valid call of
\* the same setter does not clear an error, and every Try made with a
\* recorded error returns the recorded errors without calling the operation.
C19_ErrorsOnlyAccumulate ==
    [][/\ Len(errors') >= Len(errors)
       /\ SubSeq(errors', 1, Len(errors)) = errors
       /\ (~Valid /\ pc = "config" /\ pc' # "config") =>
              (pc' = "done" /\ ret' = RetMulti(errors) /\ invoked' = 0)
      ]_vars

C19_Witness ==
    /\ Returned /\ maxDelay > 0 /\ f.bound
    /\ errors = <<Err("max delay must be positive duration", 0)>>
    /\ ret = RetMulti(errors) /\ invoked = 0

====
